---- MODULE Spec2Model ----
(***************************************************************************)
(* A model of poor-mans-vpn: the session-key layer (src/src/crypto.rs),    *)
(* the wire messages (src/src/lib.rs), the server's two workers            *)
(* (src/src/server.rs) and the client (src/src/client.rs).                 *)
(*                                                                         *)
(* Cryptography is symbolic.  An ephemeral key pair is named by            *)
(* <<seed, slot>>; ECDH of a private half with a public half is the        *)
(* unordered pair of the two names; a signature names its signer and the   *)
(* bytes it covers; an AEAD ciphertext opens only with the key, nonce and  *)
(* additional data it was sealed with.                                     *)
(***************************************************************************)
EXTENDS Integers, Sequences, FiniteSets

(***************************************************************************)
(* Bounds of the model.                                                    *)
(***************************************************************************)
\* The sequence counter's limit, 2^88 in the code, scaled down.
SeqLimit == 3
\* The length of a nonce, 12 bytes in the code, scaled down: the counter's
\* little-endian digits (radix SeqLimit) with the role tag in the last place.
NonceLen == 2
\* Seed pairs generate_seed_pair hands out to the server in one run.
MaxSeeds == 2
\* IPv4 packets the server's TUN device delivers in one run.
MaxTun == 1
\* IPv4 packets the clients' TUN devices deliver in one run.
MaxClientTun == 1
\* Faults in one run: I/O operations (socket, TUN device, key file) that
\* fail and datagrams cut shorter than a nonce.
MaxFaults == 1

(***************************************************************************)
(* Program constants.                                                      *)
(***************************************************************************)
ClientId == 1
ServerId == 2

(***************************************************************************)
(* Addresses, identities and configuration.                                *)
(***************************************************************************)
ServerAddress == <<10, 20, 30, 1>>
PeerA == <<10, 20, 30, 2>>
PeerB == <<10, 20, 30, 3>>
Stranger == <<10, 20, 30, 99>>
InnerAddrs == {ServerAddress, PeerA, PeerB, Stranger}

\* config.peers of the server: the peers' addresses ...
ConfigPeers == {PeerA, PeerB}
Clients == ConfigPeers
\* ... and the owner of the public key stored in each peer's public_key file.
PeerPublicKey(addr) == [owner |-> IF addr = PeerA THEN "Ka" ELSE "Kb"]
\* The static key pair each client loads from its private_key file.
ClientIdentity(c) == IF c = PeerA THEN "Ka" ELSE "Kb"
ServerIdentity == "Ks"
\* config.server.public_key of every client.
ServerPublicKey == [owner |-> ServerIdentity]
\* A static key pair that belongs to no configured participant.
IntruderIdentity == "Kx"

\* The outer (UDP) address each client's socket is bound to, and one more.
OuterAddr(c) == IF c = PeerA THEN "oa" ELSE "ob"
IntruderOuter == "ox"
OuterAddrs == {"oa", "ob", "ox"}

(***************************************************************************)
(* bincode: a value and its serialized bytes.                              *)
(***************************************************************************)
Serialize(val) == [bincode |-> val]
IsSerialized(bytes) == DOMAIN bytes = {"bincode"}
Deserialize(bytes) == bytes.bincode

(***************************************************************************)
(* StaticKeyPair and Signed<T>.                                            *)
(***************************************************************************)
public_key(identity) == [owner |-> identity]

sign(identity, val) ==
    LET data == Serialize(val)
    IN  [data |-> data, signature |-> [signer |-> identity, over |-> data]]

\* A verify that checks the signature against the data and not whose it is.
verify_AnySigner(signed, pubkey) == signed.signature.over = signed.data

verify(signed, pubkey) ==
    /\ signed.signature.signer = pubkey.owner
    /\ signed.signature.over = signed.data

\* An open that deserializes without verifying.
open_Unverified(signed, pubkey) == [ok |-> TRUE, val |-> Deserialize(signed.data)]

\* Signed::open: verify, then deserialize.
open(signed, pubkey) ==
    IF ~verify(signed, pubkey) THEN [ok |-> FALSE, err |-> "InvalidSignature"]
    ELSE IF ~IsSerialized(signed.data) THEN [ok |-> FALSE, err |-> "BrokenMessage"]
    ELSE [ok |-> TRUE, val |-> Deserialize(signed.data)]

(***************************************************************************)
(* PrivSeed, PubSeed and generate_seed_pair.  A seed pair is named by a    *)
(* number no other pair has: the clients' processes generate the first     *)
(* pairs (one each), the server generates the pairs from FirstServerSeed   *)
(* on, and the pair below all of them is the intruder's.                   *)
(***************************************************************************)
PrivSeed(n) == [privkey1 |-> <<n, 1>>, privkey2 |-> <<n, 2>>]
PubSeed(n) == [pubkey1 |-> <<n, 1>>, pubkey2 |-> <<n, 2>>]
\* A generator that hands out the same seed pair every time.
generate_seed_pair_Fixed(n) == [priv |-> PrivSeed(1), pub |-> PubSeed(1)]
generate_seed_pair(n) == [priv |-> PrivSeed(n), pub |-> PubSeed(n)]
ClientSeed(c) == IF c = PeerA THEN 1 ELSE 2
FirstServerSeed == Cardinality(Clients) + 1
IntruderPubSeed == PubSeed(0)

(***************************************************************************)
(* NonceSeq.                                                               *)
(***************************************************************************)
NonceSeq_new(id) == [id |-> id, next |-> 0]

RECURSIVE Pow(_, _)
Pow(b, e) == IF e = 0 THEN 1 ELSE b * Pow(b, e - 1)

\* One byte of a buffer.
Byte(n) == [byte |-> n]

\* value.to_le_bytes()[..12]: the little-endian digits of value.
to_le_bytes(value) ==
    [i \in 1..NonceLen |-> Byte((value \div Pow(SeqLimit, i - 1)) % SeqLimit)]

\* A nonce that is the counter's bytes alone, without the role tag.
NonceBytes_NoTag(value, id) == to_le_bytes(value)

\* value_bytes[11] = self.id
NonceBytes(value, id) ==
    [i \in 1..NonceLen |-> IF i = NonceLen THEN Byte(id) ELSE to_le_bytes(value)[i]]

\* A NonceSeq that hands out its value and forgets to step.
advance_NoIncrement(ns) ==
    [ok |-> TRUE, ns |-> ns, nonce |-> NonceBytes(ns.next, ns.id)]

\* A NonceSeq whose counter starts over at the limit.
advance_Wrapping(ns) ==
    LET value == ns.next % SeqLimit
    IN  [ok |-> TRUE, ns |-> [ns EXCEPT !.next = value + 1],
         nonce |-> NonceBytes(value, ns.id)]

advance(ns) ==
    LET value == ns.next
    IN  IF value >= SeqLimit
        THEN [ok |-> FALSE, ns |-> ns, nonce |-> <<>>]
        ELSE [ok |-> TRUE, ns |-> [ns EXCEPT !.next = @ + 1],
              nonce |-> NonceBytes(value, ns.id)]

(***************************************************************************)
(* SessionKey.                                                             *)
(***************************************************************************)
\* agree_ephemeral followed by PBKDF2: the key both holders of one private
\* half and the other's public half arrive at.
derive(privkey, pubkey) == [kdf |-> {privkey, pubkey}]

\* A client that derives its two keys the way the server does.
client_derive_Swapped(privseed, pubseed) ==
    [opening |-> derive(privseed.privkey1, pubseed.pubkey1),
     sealing |-> derive(privseed.privkey2, pubseed.pubkey2),
     nonce_seq |-> NonceSeq_new(ClientId)]

client_derive(privseed, pubseed) ==
    [opening |-> derive(privseed.privkey2, pubseed.pubkey2),
     sealing |-> derive(privseed.privkey1, pubseed.pubkey1),
     nonce_seq |-> NonceSeq_new(ClientId)]

\* A server that derives its two keys the way the client does.
server_derive_Swapped(privseed, pubseed) ==
    [opening |-> derive(privseed.privkey2, pubseed.pubkey2),
     sealing |-> derive(privseed.privkey1, pubseed.pubkey1),
     nonce_seq |-> NonceSeq_new(ServerId)]

server_derive(privseed, pubseed) ==
    [opening |-> derive(privseed.privkey1, pubseed.pubkey1),
     sealing |-> derive(privseed.privkey2, pubseed.pubkey2),
     nonce_seq |-> NonceSeq_new(ServerId)]

NoKey == [opening |-> [kdf |-> {}], sealing |-> [kdf |-> {}], nonce_seq |-> NonceSeq_new(0)]

\* ChaCha20-Poly1305 seal_in_place_append_tag: ciphertext and tag, one block.
seal_in_place_append_tag(key, nonce, aad, bytes) ==
    <<[key |-> key, nonce |-> nonce, aad |-> aad, plain |-> bytes]>>

\* open_in_place: the tag checks only under the same key, nonce and aad.
open_in_place(key, nonce, aad, ciphertext) ==
    IF /\ Len(ciphertext) = 1
       /\ DOMAIN ciphertext[1] = {"key", "nonce", "aad", "plain"}
       /\ ciphertext[1].key = key
       /\ ciphertext[1].nonce = nonce
       /\ ciphertext[1].aad = aad
    THEN [ok |-> TRUE, plain |-> ciphertext[1].plain]
    ELSE [ok |-> FALSE, plain |-> Serialize(0)]

\* SessionKey::seal.  outcome "ok" returns the bytes and the advanced key;
\* outcome "panic" is the unwinding of expect("nonce wear out").
seal(key, aad, data) ==
    LET adv == advance(key.nonce_seq)
    IN  IF ~adv.ok
        THEN [outcome |-> "panic", msg |-> "nonce wear out", key |-> key, bytes |-> <<>>]
        ELSE LET nonce_bytes == adv.nonce
                 full_aad == aad \o nonce_bytes
                 bytes == seal_in_place_append_tag(key.sealing, nonce_bytes,
                                                   full_aad, Serialize(data))
             IN  [outcome |-> "ok", msg |-> "",
                  key |-> [key EXCEPT !.nonce_seq = adv.ns],
                  bytes |-> bytes \o nonce_bytes]

\* SessionKey::unseal.  outcome "panic" is split_at_mut on a ciphertext
\* shorter than the nonce.
unseal(key, aad, ciphertext) ==
    IF Len(ciphertext) < NonceLen
    THEN [outcome |-> "panic", msg |-> "split_at_mut", val |-> 0]
    ELSE LET mid == Len(ciphertext) - NonceLen
             body == SubSeq(ciphertext, 1, mid)
             nonce_bytes == SubSeq(ciphertext, mid + 1, Len(ciphertext))
             full_aad == aad \o nonce_bytes
             opened == open_in_place(key.opening, nonce_bytes, full_aad, body)
         IN  IF ~opened.ok \/ ~IsSerialized(opened.plain)
             THEN [outcome |-> "err", msg |-> "BrokenMessage", val |-> 0]
             ELSE [outcome |-> "ok", msg |-> "", val |-> Deserialize(opened.plain)]

(***************************************************************************)
(* Message, SealedPacket and the inner IPv4 packets.                       *)
(***************************************************************************)
Hello(addr, seed) == [type |-> "Hello", addr |-> addr, seed |-> seed]
HelloReply(seed) == [type |-> "HelloReply", seed |-> seed]
HeartBeat == [type |-> "HeartBeat"]
Packet(sealed_packet) == [type |-> "Packet", sealed |-> sealed_packet]
\* A datagram bincode cannot deserialize into a Message.
Garbage == [type |-> "Garbage"]
NoMsg == [type |-> "None"]

SealedPacket(source, destination, content) ==
    [source |-> source, destination |-> destination, content |-> content]

\* Additional data that leaves the destination out.
addresses_as_bytes_SourceOnly(sealed_packet) ==
    LET s == sealed_packet.source
    IN  <<Byte(s[1]), Byte(s[2]), Byte(s[3]), Byte(s[4])>>

addresses_as_bytes(sealed_packet) ==
    LET s == sealed_packet.source
        d == sealed_packet.destination
    IN  <<Byte(s[1]), Byte(s[2]), Byte(s[3]), Byte(s[4]),
          Byte(d[1]), Byte(d[2]), Byte(d[3]), Byte(d[4])>>

\* The bytes of an IPv4 packet: its header's addresses and its payload.
Ipv4Packet(source, destination, data) ==
    [ipv4 |-> TRUE, source |-> source, destination |-> destination, data |-> data]
\* Bytes that do not start with an IPv4 header.
NotIpv4 == [ipv4 |-> FALSE, source |-> <<0, 0, 0, 0>>, destination |-> <<0, 0, 0, 0>>,
            data |-> "junk"]
NoPacket == [ipv4 |-> FALSE, source |-> <<0, 0, 0, 0>>, destination |-> <<0, 0, 0, 0>>,
             data |-> ""]
\* Ipv4Header::from_slice succeeds.
Ipv4Header_from_slice(packet) == packet.ipv4

(***************************************************************************)
(* State.                                                                  *)
(***************************************************************************)
VARIABLES
    peers,      \* server: the peer table, inner address -> Peer (or NoPeer)
    lock,       \* server: the worker holding the peer-table mutex, or "none"
    poisoned,   \* server: a worker panicked while holding the mutex
    udp,        \* server: the UDP-inbound worker, its place and its locals
    tun,        \* server: the TUN-outbound worker (main), its place and locals
    sent,       \* datagrams the server's socket sent: [msg, to]
    iface,      \* packets written to the server's TUN device
    n_tun,      \* packets the server's TUN device has delivered
    cl,         \* the clients: state, seed, session key, workers
    wire,       \* datagrams the clients' sockets sent: [msg, from]
    ciface,     \* packets written to each client's TUN device
    n_ctun,     \* packets the clients' TUN devices have delivered
    nseeds,     \* seed pairs the server has generated so far
    n_faults,   \* faults the environment has injected so far
    last,       \* history: the datagram the UDP worker handled last
    got         \* history: the message a client's handshake received last

\* The program's state with the TUN devices' and the generator's counters,
\* and all of the state.
prog_vars == <<peers, lock, poisoned, udp, tun, sent, iface, n_tun,
               cl, wire, ciface, n_ctun, nseeds>>
vars == <<prog_vars, n_faults, last, got>>
server_vars == <<peers, lock, poisoned, udp, tun, sent, iface, n_tun>>
client_vars == <<cl, wire, ciface, n_ctun>>

NoPeer == [present |-> FALSE, sock_addr |-> "", session_key |-> NoKey]
Peer(sock_addr, session_key) ==
    [present |-> TRUE, sock_addr |-> sock_addr, session_key |-> session_key]

\* A worker between two packets; err is what ended it, once it has ended.
UdpIdle == [pc |-> "recv", msg |-> NoMsg, src_addr |-> "", session_key |-> NoKey,
            pub_seed |-> PubSeed(0), packet |-> NoPacket, err |-> ""]
TunIdle == [pc |-> "recv", packet |-> NoPacket, err |-> ""]

\* Nothing handled yet.  serial flips with every datagram handled, so that
\* handling one is a step even when it changes nothing else.
NoHello == [msg |-> NoMsg, from |-> "", readable |-> TRUE, serial |-> 0]

\* Nothing received yet.  serial flips with every message a handshake receives.
NoReply == [c |-> <<0, 0, 0, 0>>, msg |-> NoMsg, serial |-> 0]

ClientInit == [state |-> "Initial", priv_seed |-> 0, session_key |-> NoKey,
               main |-> "running", rx |-> "none", poisoned |-> FALSE]

Init ==
    /\ peers = [a \in InnerAddrs |-> NoPeer]
    /\ lock = "none"
    /\ poisoned = FALSE
    /\ udp = UdpIdle
    /\ tun = TunIdle
    /\ sent = {}
    /\ iface = {}
    /\ n_tun = 0
    /\ cl = [c \in Clients |-> ClientInit]
    /\ wire = {}
    /\ ciface = [c \in Clients |-> {}]
    /\ n_ctun = 0
    /\ nseeds = 0
    /\ n_faults = 0
    /\ last = NoHello
    /\ got = NoReply

\* The server process lives as long as its main thread does.
ServerUp == tun.pc \notin {"exited", "panicked"}
UdpAt(pc) == ServerUp /\ udp.pc = pc
TunAt(pc) == tun.pc = pc

(***************************************************************************)
(* Server, UDP-inbound worker (the spawned thread).                        *)
(*                                                                         *)
(* A worker shares nothing between its blocking receive and its next       *)
(* lock(), so one step runs from the receive up to the first I/O done with *)
(* the lock held; a worker that would block on the mutex receives later.   *)
(***************************************************************************)
UdpStop(pc, err) == [UdpIdle EXCEPT !.pc = pc, !.err = err]

\* sock.recv_from() fails or yields no Hello, HeartBeat or Packet.
UdpIgnore(msg) ==
    /\ UdpAt("recv")
    /\ msg.type \notin {"Hello", "HeartBeat", "Packet"}
    /\ UNCHANGED prog_vars

\* A Hello branch that keeps one seed pair per peer and uses it again for
\* every Hello of that peer.
UdpHello_SeedPerPeer(msg, src_addr, readable) ==
    /\ UdpAt("recv")
    /\ msg.type = "Hello"
    /\ LET addr == msg.addr
           client_seed == open(msg.seed, PeerPublicKey(addr))
           seeds == generate_seed_pair(FirstServerSeed + (IF addr = PeerA THEN 0 ELSE 1))
           session_key == server_derive(seeds.priv, client_seed.val)
       IN  IF addr \notin ConfigPeers
           THEN readable /\ UNCHANGED prog_vars
           ELSE IF ~readable
           THEN /\ udp' = UdpStop("exited", "io")
                /\ UNCHANGED <<peers, lock, poisoned, nseeds>>
           ELSE IF ~client_seed.ok
           THEN UNCHANGED prog_vars
           ELSE /\ nseeds < MaxSeeds
                /\ nseeds' = nseeds + 1
                /\ lock = "none"
                /\ UNCHANGED poisoned
                /\ IF poisoned
                   THEN udp' = UdpStop("panicked", "poisoned") /\ UNCHANGED <<peers, lock>>
                   ELSE /\ lock' = "udp"
                        /\ peers' = [peers EXCEPT ![addr] = Peer(src_addr, session_key)]
                        /\ udp' = [UdpIdle EXCEPT !.pc = "hello_reply", !.msg = msg,
                                                  !.src_addr = src_addr,
                                                  !.pub_seed = seeds.pub]
    /\ UNCHANGED <<tun, sent, iface, n_tun>>
    /\ UNCHANGED client_vars

\* Message::Hello: the peer's configuration, its public key file, the
\* signed seed, a fresh seed pair, the session key, peers.lock() and
\* peers.insert(addr, Peer { sock_addr: src_addr, session_key }).
UdpHello(msg, src_addr, readable) ==
    /\ UdpAt("recv")
    /\ msg.type = "Hello"
    /\ LET addr == msg.addr
           client_seed == open(msg.seed, PeerPublicKey(addr))
           seeds == generate_seed_pair(FirstServerSeed + nseeds)
           session_key == server_derive(seeds.priv, client_seed.val)
       IN  IF addr \notin ConfigPeers
           THEN readable /\ UNCHANGED prog_vars
           ELSE IF ~readable
           THEN /\ udp' = UdpStop("exited", "io")
                /\ UNCHANGED <<peers, lock, poisoned, nseeds>>
           ELSE IF ~client_seed.ok
           THEN UNCHANGED prog_vars
           ELSE /\ nseeds < MaxSeeds
                /\ nseeds' = nseeds + 1
                /\ lock = "none"
                /\ UNCHANGED poisoned
                /\ IF poisoned
                   THEN udp' = UdpStop("panicked", "poisoned") /\ UNCHANGED <<peers, lock>>
                   ELSE /\ lock' = "udp"
                        /\ peers' = [peers EXCEPT ![addr] = Peer(src_addr, session_key)]
                        /\ udp' = [UdpIdle EXCEPT !.pc = "hello_reply", !.msg = msg,
                                                  !.src_addr = src_addr,
                                                  !.pub_seed = seeds.pub]
    /\ UNCHANGED <<tun, sent, iface, n_tun>>
    /\ UNCHANGED client_vars

\* A reply step that takes the entry out again when send_to fails.
UdpHelloReply_Rollback(ok) ==
    /\ UdpAt("hello_reply")
    /\ IF ok
       THEN /\ sent' = sent \cup {[msg |-> HelloReply(sign(ServerIdentity, udp.pub_seed)),
                                   to |-> udp.src_addr]}
            /\ UNCHANGED peers
       ELSE /\ peers' = [peers EXCEPT ![udp.msg.addr] = NoPeer]
            /\ UNCHANGED sent
    /\ udp' = UdpIdle
    /\ lock' = "none"
    /\ UNCHANGED <<poisoned, tun, iface, n_tun, nseeds>>
    /\ UNCHANGED client_vars

\* The signed HelloReply and its send_to; the guard is dropped at the end.
UdpHelloReply(ok) ==
    /\ UdpAt("hello_reply")
    /\ LET signed_seed == sign(ServerIdentity, udp.pub_seed)
           reply == HelloReply(signed_seed)
       IN  IF ok
           THEN sent' = sent \cup {[msg |-> reply, to |-> udp.src_addr]}
           ELSE UNCHANGED sent
    /\ udp' = UdpIdle
    /\ lock' = "none"
    /\ UNCHANGED <<peers, poisoned, tun, iface, n_tun, nseeds>>
    /\ UNCHANGED client_vars

\* A HeartBeat branch that answers only the outer addresses in the table.
UdpHeartBeat_PeersOnly(msg, src_addr, ok) ==
    /\ UdpAt("recv")
    /\ msg.type = "HeartBeat"
    /\ IF ok /\ \E a \in InnerAddrs : peers[a].present /\ peers[a].sock_addr = src_addr
       THEN sent' = sent \cup {[msg |-> HeartBeat, to |-> src_addr]}
       ELSE UNCHANGED sent
    /\ UNCHANGED <<peers, lock, poisoned, udp, tun, iface, n_tun, nseeds>>
    /\ UNCHANGED client_vars

\* Message::HeartBeat: the echo to src_addr.
UdpHeartBeat(msg, src_addr, ok) ==
    /\ UdpAt("recv")
    /\ msg.type = "HeartBeat"
    /\ IF ok
       THEN sent' = sent \cup {[msg |-> HeartBeat, to |-> src_addr]}
       ELSE UNCHANGED sent
    /\ UNCHANGED <<peers, lock, poisoned, udp, tun, iface, n_tun, nseeds>>
    /\ UNCHANGED client_vars

\* A Packet branch that hands every packet it cannot forward to the TUN.
UdpPacket_NoRoute(msg, src_addr) ==
    /\ UdpAt("recv")
    /\ msg.type = "Packet"
    /\ lock = "none"
    /\ ~poisoned
    /\ LET sealed_packet == msg.sealed
           aad == addresses_as_bytes(sealed_packet)
           res == unseal(peers[sealed_packet.source].session_key, aad, sealed_packet.content)
           held == [UdpIdle EXCEPT !.msg = msg, !.packet = res.val]
       IN  IF ~peers[sealed_packet.source].present \/ res.outcome # "ok"
           THEN UNCHANGED <<udp, lock>>
           ELSE IF ~Ipv4Header_from_slice(res.val)
           THEN UNCHANGED <<udp, lock>>
           ELSE IF res.val.destination # ServerAddress /\ peers[res.val.destination].present
           THEN udp' = [held EXCEPT !.pc = "packet_forward"] /\ lock' = "udp"
           ELSE udp' = [held EXCEPT !.pc = "packet_tun"] /\ lock' = "udp"
    /\ UNCHANGED <<peers, poisoned, tun, sent, iface, n_tun, nseeds>>
    /\ UNCHANGED client_vars

\* A Packet branch that records the outer address a peer's Packet came from.
UdpPacket_Roaming(msg, src_addr) ==
    /\ UdpAt("recv")
    /\ msg.type = "Packet"
    /\ lock = "none"
    /\ ~poisoned
    /\ LET sealed_packet == msg.sealed
           src == sealed_packet.source
           aad == addresses_as_bytes(sealed_packet)
           res == unseal(peers[src].session_key, aad, sealed_packet.content)
           held == [UdpIdle EXCEPT !.msg = msg, !.packet = res.val]
       IN  IF ~peers[src].present \/ res.outcome # "ok"
           THEN UNCHANGED <<udp, lock, peers>>
           ELSE /\ peers' = [peers EXCEPT ![src].sock_addr = src_addr]
                /\ IF ~Ipv4Header_from_slice(res.val)
                   THEN UNCHANGED <<udp, lock>>
                   ELSE IF res.val.destination = ServerAddress
                   THEN udp' = [held EXCEPT !.pc = "packet_tun"] /\ lock' = "udp"
                   ELSE IF peers[res.val.destination].present
                   THEN udp' = [held EXCEPT !.pc = "packet_forward"] /\ lock' = "udp"
                   ELSE UNCHANGED <<udp, lock>>
    /\ UNCHANGED <<poisoned, tun, sent, iface, n_tun, nseeds>>
    /\ UNCHANGED client_vars

\* A Packet branch that takes the plaintext without checking the tag:
\* whatever key, nonce and additional data the content was sealed with.
UdpPacket_NoTag(msg, src_addr) ==
    /\ UdpAt("recv")
    /\ msg.type = "Packet"
    /\ lock = "none"
    /\ ~poisoned
    /\ Len(msg.sealed.content) >= NonceLen
    /\ LET sealed_packet == msg.sealed
           src == sealed_packet.source
           body == SubSeq(sealed_packet.content, 1, Len(sealed_packet.content) - NonceLen)
           opened == /\ Len(body) = 1
                     /\ DOMAIN body[1] = {"key", "nonce", "aad", "plain"}
                     /\ IsSerialized(body[1].plain)
           packet == IF opened THEN Deserialize(body[1].plain) ELSE NoPacket
           held == [UdpIdle EXCEPT !.msg = msg, !.packet = packet]
       IN  IF ~peers[src].present \/ ~opened
           THEN UNCHANGED <<udp, lock>>
           ELSE IF ~Ipv4Header_from_slice(packet)
           THEN UNCHANGED <<udp, lock>>
           ELSE IF packet.destination = ServerAddress
           THEN udp' = [held EXCEPT !.pc = "packet_tun"] /\ lock' = "udp"
           ELSE IF peers[packet.destination].present
           THEN udp' = [held EXCEPT !.pc = "packet_forward"] /\ lock' = "udp"
           ELSE UNCHANGED <<udp, lock>>
    /\ UNCHANGED <<peers, poisoned, tun, sent, iface, n_tun, nseeds>>
    /\ UNCHANGED client_vars

\* Message::Packet: peers.lock(), the sender's session, unseal, the inner
\* IPv4 header and the routing decision.
UdpPacket(msg, src_addr) ==
    /\ UdpAt("recv")
    /\ msg.type = "Packet"
    /\ lock = "none"
    /\ LET sealed_packet == msg.sealed
           src == sealed_packet.source
           aad == addresses_as_bytes(sealed_packet)
           res == unseal(peers[src].session_key, aad, sealed_packet.content)
           packet == res.val
           held == [UdpIdle EXCEPT !.msg = msg, !.packet = packet]
       IN  IF poisoned
           THEN udp' = UdpStop("panicked", "poisoned") /\ UNCHANGED <<lock, poisoned>>
           ELSE IF ~peers[src].present
           THEN UNCHANGED <<udp, lock, poisoned>>
           ELSE IF res.outcome = "panic"
           THEN udp' = UdpStop("panicked", res.msg) /\ poisoned' = TRUE /\ UNCHANGED lock
           ELSE IF res.outcome = "err"
           THEN UNCHANGED <<udp, lock, poisoned>>
           ELSE IF ~Ipv4Header_from_slice(packet)
           THEN UNCHANGED <<udp, lock, poisoned>>
           ELSE IF packet.destination = ServerAddress
           THEN udp' = [held EXCEPT !.pc = "packet_tun"]
                /\ lock' = "udp" /\ UNCHANGED poisoned
           ELSE IF peers[packet.destination].present
           THEN udp' = [held EXCEPT !.pc = "packet_forward"]
                /\ lock' = "udp" /\ UNCHANGED poisoned
           ELSE UNCHANGED <<udp, lock, poisoned>>
    /\ UNCHANGED <<peers, tun, sent, iface, n_tun, nseeds>>
    /\ UNCHANGED client_vars

\* A TUN write that also sends the frame back to where its source is recorded.
UdpPacketTun_Echo(ok) ==
    /\ UdpAt("packet_tun")
    /\ IF ok
       THEN /\ iface' = iface \cup {udp.packet}
            /\ udp' = UdpIdle
            /\ sent' = sent \cup {[msg |-> udp.msg,
                                    to |-> peers[udp.msg.sealed.source].sock_addr]}
       ELSE UNCHANGED <<iface, sent>> /\ udp' = UdpStop("exited", "io")
    /\ lock' = "none"
    /\ UNCHANGED <<peers, poisoned, tun, n_tun, nseeds>>
    /\ UNCHANGED client_vars

\* iface.send(&packet)?, with the lock still held.
UdpPacketTun(ok) ==
    /\ UdpAt("packet_tun")
    /\ IF ok
       THEN iface' = iface \cup {udp.packet} /\ udp' = UdpIdle
       ELSE UNCHANGED iface /\ udp' = UdpStop("exited", "io")
    /\ lock' = "none"
    /\ UNCHANGED <<peers, poisoned, tun, sent, n_tun, nseeds>>
    /\ UNCHANGED client_vars

\* A forward that seals the packet without its payload.
Reseal_HeaderOnly(peer, packet) ==
    LET sealed_packet == SealedPacket(packet.source, packet.destination, <<>>)
        aad == addresses_as_bytes(sealed_packet)
        res == seal(peer.session_key, aad, [packet EXCEPT !.data = ""])
    IN  [outcome |-> res.outcome, msg |-> res.msg,
         peer |-> [peer EXCEPT !.session_key = res.key],
         frame |-> [msg |-> Packet([sealed_packet EXCEPT !.content = res.bytes]),
                    to |-> peer.sock_addr]]

\* What both workers do with a packet for a peer in the table: a new
\* SealedPacket with the inner header's addresses, sealed with that peer's
\* session key.
Reseal(peer, packet) ==
    LET sealed_packet == SealedPacket(packet.source, packet.destination, <<>>)
        aad == addresses_as_bytes(sealed_packet)
        res == seal(peer.session_key, aad, packet)
    IN  [outcome |-> res.outcome, msg |-> res.msg,
         peer |-> [peer EXCEPT !.session_key = res.key],
         frame |-> [msg |-> Packet([sealed_packet EXCEPT !.content = res.bytes]),
                    to |-> peer.sock_addr]]

\* The forward to another peer: seal with its session key, send_to.  A seal
\* that panics drops the guard while unwinding, which poisons the mutex.
UdpPacketForward(ok) ==
    /\ UdpAt("packet_forward")
    /\ LET destination == udp.packet.destination
           res == Reseal(peers[destination], udp.packet)
       IN  IF res.outcome = "panic"
           THEN /\ ok
                /\ udp' = UdpStop("panicked", res.msg)
                /\ poisoned' = TRUE
                /\ UNCHANGED <<peers, sent>>
           ELSE /\ peers' = [peers EXCEPT ![destination] = res.peer]
                /\ IF ok THEN sent' = sent \cup {res.frame} ELSE UNCHANGED sent
                /\ udp' = UdpIdle
                /\ UNCHANGED poisoned
    /\ lock' = "none"
    /\ UNCHANGED <<tun, iface, n_tun, nseeds>>
    /\ UNCHANGED client_vars

(***************************************************************************)
(* Server, TUN-outbound worker (the main thread).                          *)
(***************************************************************************)
TunStop(pc, err) == [TunIdle EXCEPT !.pc = pc, !.err = err]

\* A TUN worker that reaches for the peer table without taking the mutex.
TunRecv_NoLock(packet, ok) ==
    /\ TunAt("recv")
    /\ n_tun < MaxTun
    /\ n_tun' = n_tun + 1
    /\ IF ~ok
       THEN tun' = TunStop("exited", "io")
       ELSE IF ~Ipv4Header_from_slice(packet) \/ packet.destination = ServerAddress
       THEN UNCHANGED tun
       ELSE tun' = [TunIdle EXCEPT !.pc = "send", !.packet = packet]
    /\ UNCHANGED <<lock, peers, poisoned, udp, sent, iface, nseeds>>
    /\ UNCHANGED client_vars

\* iface.recv(&mut buf)?, the inner IPv4 header, the server's own address,
\* peers.lock().
TunRecv(packet, ok) ==
    /\ TunAt("recv")
    /\ n_tun < MaxTun
    /\ n_tun' = n_tun + 1
    /\ IF ~ok
       THEN tun' = TunStop("exited", "io") /\ UNCHANGED lock
       ELSE IF ~Ipv4Header_from_slice(packet)
       THEN UNCHANGED <<tun, lock>>
       ELSE IF packet.destination = ServerAddress
       THEN UNCHANGED <<tun, lock>>
       ELSE /\ lock = "none"
            /\ IF poisoned
               THEN tun' = TunStop("panicked", "poisoned") /\ UNCHANGED lock
               ELSE tun' = [TunIdle EXCEPT !.pc = "send", !.packet = packet]
                    /\ lock' = "tun"
    /\ UNCHANGED <<peers, poisoned, udp, sent, iface, nseeds>>
    /\ UNCHANGED client_vars

\* A TUN worker that sends a packet for an unknown destination to every
\* peer in the table instead of dropping it.
TunSend_Flood(ok) ==
    /\ TunAt("send")
    /\ LET destination == tun.packet.destination
           res == Reseal(peers[destination], tun.packet)
           flood == {Reseal(peers[a], tun.packet).frame : a \in {x \in ConfigPeers : peers[x].present}}
       IN  IF ~peers[destination].present
           THEN ok /\ tun' = TunIdle /\ sent' = sent \cup flood /\ UNCHANGED <<peers, poisoned>>
           ELSE IF res.outcome = "panic"
           THEN /\ ok
                /\ tun' = TunStop("panicked", res.msg)
                /\ poisoned' = TRUE
                /\ UNCHANGED <<peers, sent>>
           ELSE /\ peers' = [peers EXCEPT ![destination] = res.peer]
                /\ IF ok THEN sent' = sent \cup {res.frame} ELSE UNCHANGED sent
                /\ tun' = TunIdle
                /\ UNCHANGED poisoned
    /\ lock' = "none"
    /\ UNCHANGED <<udp, iface, n_tun, nseeds>>
    /\ UNCHANGED client_vars

\* peers.get_mut(&destination), seal, send_to; the guard is dropped at the end.
TunSend(ok) ==
    /\ TunAt("send")
    /\ LET destination == tun.packet.destination
           res == Reseal(peers[destination], tun.packet)
       IN  IF ~peers[destination].present
           THEN ok /\ tun' = TunIdle /\ UNCHANGED <<peers, poisoned, sent>>
           ELSE IF res.outcome = "panic"
           THEN /\ ok
                /\ tun' = TunStop("panicked", res.msg)
                /\ poisoned' = TRUE
                /\ UNCHANGED <<peers, sent>>
           ELSE /\ peers' = [peers EXCEPT ![destination] = res.peer]
                /\ IF ok THEN sent' = sent \cup {res.frame} ELSE UNCHANGED sent
                /\ tun' = TunIdle
                /\ UNCHANGED poisoned
    /\ lock' = "none"
    /\ UNCHANGED <<udp, iface, n_tun, nseeds>>
    /\ UNCHANGED client_vars

(***************************************************************************)
(* Client.                                                                 *)
(***************************************************************************)
\* A client past its handshake: its three workers run until the process ends.
ClientUp(c) == cl[c].state = "Established"

\* A client whose process has ended (why: the panic or the error returned).
ClientDead(why) == [ClientInit EXCEPT !.state = "Dead", !.main = "ended"]

\* generate_seed_pair, the signed seed and channel.send(&hello).expect(..)
ClientHello(c, ok) ==
    /\ cl[c].state = "Initial"
    /\ LET seeds == generate_seed_pair(ClientSeed(c))
           signed_seed == sign(ClientIdentity(c), seeds.pub)
           hello == Hello(c, signed_seed)
       IN  IF ok
           THEN /\ wire' = wire \cup {[msg |-> hello, from |-> OuterAddr(c)]}
                /\ cl' = [cl EXCEPT ![c].state = "HelloSent", ![c].priv_seed = ClientSeed(c)]
           ELSE /\ UNCHANGED wire
                /\ cl' = [cl EXCEPT ![c] = ClientDead("send hello")]
    /\ UNCHANGED <<ciface, n_ctun, nseeds>>
    /\ UNCHANGED server_vars

\* channel.recv().expect(..) and the match on the reply.
ClientHandshake(c, msg) ==
    /\ cl[c].state = "HelloSent"
    /\ IF msg.type = "Garbage"
       THEN cl' = [cl EXCEPT ![c] = ClientDead("recv or parse")]
       ELSE IF msg.type = "HelloReply"
       THEN LET server_seed == open(msg.seed, ServerPublicKey)
            IN  IF ~server_seed.ok
                THEN cl' = [cl EXCEPT ![c] = ClientDead("signature invalid")]
                ELSE cl' = [cl EXCEPT ![c].state = "Established",
                                      ![c].session_key =
                                          client_derive(PrivSeed(cl[c].priv_seed),
                                                        server_seed.val),
                                      ![c].rx = "running"]
       ELSE cl' = [cl EXCEPT ![c] = ClientDead("unexpected message")]
    /\ UNCHANGED <<wire, ciface, n_ctun, nseeds>>
    /\ UNCHANGED server_vars

\* The heartbeat thread: every period, channel.send(&Message::HeartBeat); a
\* failed send is logged.
ClientHeartBeat(c, ok) ==
    /\ cl[c].state = "Established"
    /\ IF ok
       THEN wire' = wire \cup {[msg |-> HeartBeat, from |-> OuterAddr(c)]}
       ELSE UNCHANGED wire
    /\ UNCHANGED <<cl, ciface, n_ctun, nseeds>>
    /\ UNCHANGED server_vars

\* The main loop, TUN to UDP: iface.recv(&mut buf)? fails.
ClientTunFail(c) ==
    /\ cl[c].state = "Established"
    /\ n_ctun < MaxClientTun
    /\ n_ctun' = n_ctun + 1
    /\ cl' = [cl EXCEPT ![c] = ClientDead("io")]
    /\ UNCHANGED <<wire, ciface, nseeds>>
    /\ UNCHANGED server_vars

\* The main loop, TUN to UDP: the IPv4 header, the lock, seal, channel.send.
ClientTun(c, packet, ok) ==
    /\ cl[c].state = "Established"
    /\ n_ctun < MaxClientTun
    /\ n_ctun' = n_ctun + 1
    /\ LET sealed_packet == SealedPacket(packet.source, packet.destination, <<>>)
           aad == addresses_as_bytes(sealed_packet)
           res == seal(cl[c].session_key, aad, packet)
           frame == [msg |-> Packet([sealed_packet EXCEPT !.content = res.bytes]),
                     from |-> OuterAddr(c)]
       IN  IF ~Ipv4Header_from_slice(packet)
           THEN ok /\ UNCHANGED <<cl, wire>>
           ELSE IF cl[c].poisoned
           THEN ok /\ cl' = [cl EXCEPT ![c] = ClientDead("poisoned")] /\ UNCHANGED wire
           ELSE IF res.outcome = "panic"
           THEN ok /\ cl' = [cl EXCEPT ![c] = ClientDead(res.msg)] /\ UNCHANGED wire
           ELSE /\ cl' = [cl EXCEPT ![c].session_key = res.key]
                /\ IF ok THEN wire' = wire \cup {frame} ELSE UNCHANGED wire
    /\ UNCHANGED <<ciface, nseeds>>
    /\ UNCHANGED server_vars

\* The UDP receive thread: channel.recv, unseal under the lock, the IPv4
\* header, iface.send(&packet)?
ClientUdp(c, msg, ok) ==
    /\ cl[c].state = "Established"
    /\ cl[c].rx = "running"
    /\ IF msg.type = "Packet"
       THEN LET aad == addresses_as_bytes(msg.sealed)
                res == unseal(cl[c].session_key, aad, msg.sealed.content)
                packet == res.val
            IN  IF res.outcome = "panic"
                THEN ok /\ cl' = [cl EXCEPT ![c].rx = res.msg, ![c].poisoned = TRUE]
                     /\ UNCHANGED ciface
                ELSE IF res.outcome = "err" \/ ~Ipv4Header_from_slice(packet)
                THEN ok /\ UNCHANGED <<cl, ciface>>
                ELSE IF ok
                THEN ciface' = [ciface EXCEPT ![c] = @ \cup {packet}] /\ UNCHANGED cl
                ELSE cl' = [cl EXCEPT ![c].rx = "io"] /\ UNCHANGED ciface
       ELSE ok /\ UNCHANGED <<cl, ciface>>
    /\ UNCHANGED <<wire, n_ctun, nseeds>>
    /\ UNCHANGED server_vars

(***************************************************************************)
(* The environment: the TUN devices and the network, which delivers,       *)
(* repeats, redirects and alters datagrams but holds no participant's key. *)
(***************************************************************************)
Hosts == {ServerAddress, PeerA, PeerB}
ServerTunPackets == {Ipv4Packet(ServerAddress, d, "pong") : d \in Hosts} \cup {NotIpv4}
ClientTunPackets(c) == {Ipv4Packet(c, d, "ping") : d \in Hosts \ {c}} \cup {NotIpv4}

OtherPeer(a) == IF a = PeerA THEN PeerB ELSE PeerA

\* What the network can make of a datagram without any key.
Tamper(msg) ==
    IF msg.type = "Packet"
    THEN {Packet([msg.sealed EXCEPT !.source = OtherPeer(@)]),
          Packet([msg.sealed EXCEPT !.destination = OtherPeer(@)]),
          Packet([msg.sealed EXCEPT !.content = Tail(@)]),
          Packet([msg.sealed EXCEPT !.content = <<>>])}
    ELSE IF msg.type = "Hello"
    THEN {[msg EXCEPT !.addr = OtherPeer(@)],
          [msg EXCEPT !.seed.data = Serialize(IntruderPubSeed)]}
    ELSE IF msg.type = "HelloReply"
    THEN {[msg EXCEPT !.seed.data = Serialize(IntruderPubSeed)]}
    ELSE {}

\* Datagrams the intruder builds from nothing.
IntruderMsgs ==
    {Garbage, HeartBeat}
    \cup {Hello(a, sign(IntruderIdentity, IntruderPubSeed)) : a \in {PeerA, Stranger}}
    \cup {HelloReply(sign(IntruderIdentity, IntruderPubSeed))}

\* Datagrams the server's socket may receive, with the outer source
\* address: what the clients sent, the same from another address, altered,
\* what the server itself sent (reflected), and the intruder's own.
ServerInbox ==
    wire
    \cup {[msg |-> f.msg, from |-> IntruderOuter] : f \in {w \in wire : w.msg.type = "Hello"}}
    \cup UNION {{[msg |-> m, from |-> f.from] : m \in Tamper(f.msg)} : f \in wire}
    \cup {[msg |-> f.msg, from |-> f.to] : f \in sent}
    \cup {[msg |-> m, from |-> IntruderOuter] : m \in IntruderMsgs}

\* Datagrams a client's socket may receive: what the server sent (to
\* anyone), the same altered, the clients' own packets, the intruder's own.
ClientInbox ==
    {f.msg : f \in sent}
    \cup UNION {Tamper(f.msg) : f \in sent}
    \cup {f.msg : f \in {w \in wire : w.msg.type = "Packet"}}
    \cup IntruderMsgs

(***************************************************************************)
(* The specification.                                                      *)
(***************************************************************************)
\* The environment injects a fault (ok = FALSE) MaxFaults times at most.
Fault(ok) ==
    /\ ok \/ n_faults < MaxFaults
    /\ n_faults' = IF ok THEN n_faults ELSE n_faults + 1

Io(ok) == Fault(ok) /\ UNCHANGED <<last, got>>

\* A datagram whose content is too short to hold a nonce counts as a fault.
Whole(msg) == msg.type = "Packet" => Len(msg.sealed.content) >= NonceLen

\* The history of the datagrams handled.
Handled(d, readable) ==
    last' = [msg |-> d.msg, from |-> d.from, readable |-> readable,
             serial |-> 1 - last.serial]

\* The history of the messages the clients' handshakes received.
Received(c, msg) == got' = [c |-> c, msg |-> msg, serial |-> 1 - got.serial]

\* Both programs and the network.
Next ==
    \/ \E d \in ServerInbox : UdpIgnore(d.msg) /\ Io(TRUE)
    \/ \E d \in ServerInbox, readable \in BOOLEAN :
           UdpHello(d.msg, d.from, readable) /\ Io(readable)
    \/ \E ok \in BOOLEAN : UdpHelloReply(ok) /\ Io(ok)
    \/ \E d \in ServerInbox : UdpPacket(d.msg, d.from) /\ Io(Whole(d.msg))
    \/ \E ok \in BOOLEAN : UdpPacketTun(ok) /\ Io(ok)
    \/ \E ok \in BOOLEAN : UdpPacketForward(ok) /\ Io(ok)
    \/ \E p \in ServerTunPackets, ok \in BOOLEAN : TunRecv(p, ok) /\ Io(ok)
    \/ \E ok \in BOOLEAN : TunSend(ok) /\ Io(ok)
    \/ \E c \in Clients, ok \in BOOLEAN : ClientHello(c, ok) /\ Io(ok)
    \/ \E c \in Clients, m \in ClientInbox : ClientHandshake(c, m) /\ Io(TRUE)
    \/ \E c \in Clients : ClientTunFail(c) /\ Io(FALSE)
    \/ \E c \in Clients : \E p \in ClientTunPackets(c), ok \in BOOLEAN :
           ClientTun(c, p, ok) /\ Io(ok)
    \/ \E c \in Clients, m \in ClientInbox, ok \in BOOLEAN :
           ClientUdp(c, m, ok) /\ Io(ok /\ Whole(m))

\* The handshake alone, with the history of the Hellos handled: the
\* clients up to Established, and the UDP worker with no Packet to receive.
HelloNext ==
    \/ \E d \in ServerInbox : UdpIgnore(d.msg) /\ Io(TRUE)
    \/ \E d \in ServerInbox, readable \in BOOLEAN :
           UdpHello(d.msg, d.from, readable) /\ Fault(readable) /\ Handled(d, readable)
               /\ UNCHANGED got
    \/ \E ok \in BOOLEAN : UdpHelloReply(ok) /\ Io(ok)
    \/ \E d \in ServerInbox, ok \in BOOLEAN : UdpHeartBeat(d.msg, d.from, ok) /\ Io(ok)
    \/ \E c \in Clients, ok \in BOOLEAN : ClientHello(c, ok) /\ Io(ok)
    \/ \E c \in Clients, m \in ClientInbox :
           ClientHandshake(c, m) /\ Fault(TRUE) /\ Received(c, m) /\ UNCHANGED last

\* What a peer that runs a program of its own can send: with the session
\* key its handshake gave it, any bytes sealed under any pair of addresses.
CraftPayloads ==
    {Ipv4Packet(x, y, "craft") : x \in ConfigPeers, y \in InnerAddrs} \cup {NotIpv4}
Crafted(c) ==
    {Packet([SealedPacket(s, d, <<>>) EXCEPT !.content =
                 seal(cl[c].session_key,
                      addresses_as_bytes(SealedPacket(s, d, <<>>)), p).bytes]) :
         s \in ConfigPeers, d \in InnerAddrs, p \in CraftPayloads}

\* The server's UDP worker and peers of that kind, with the history of the
\* Packets handled: no datagram is lost or altered and no I/O fails; a
\* Packet that client.rs would not build counts as a fault.
PeerNext ==
    \/ \E c \in Clients : ClientHello(c, TRUE) /\ Io(TRUE)
    \/ \E d \in wire : UdpHello(d.msg, d.from, TRUE) /\ Io(TRUE)
    \/ UdpHelloReply(TRUE) /\ Io(TRUE)
    \/ \E c \in Clients : \E f \in sent :
           f.to = OuterAddr(c) /\ ClientHandshake(c, f.msg) /\ Io(TRUE)
    \/ \E c \in Clients : \E m \in Crafted(c) :
           /\ ClientUp(c)
           /\ UdpPacket(m, OuterAddr(c))
           /\ Fault(FALSE)
           /\ Handled([msg |-> m, from |-> OuterAddr(c)], TRUE)
           /\ UNCHANGED got
    \/ UdpPacketTun(TRUE) /\ Io(TRUE)
    \/ UdpPacketForward(TRUE) /\ Io(TRUE)
    \/ \E c \in Clients : \E f \in sent :
           f.to = OuterAddr(c) /\ ClientUdp(c, f.msg, TRUE) /\ Io(TRUE)

\* The HeartBeats the server's socket may receive: the clients' and one
\* from an address that belongs to no peer.
BeatInbox ==
    {d \in wire : d.msg.type = "HeartBeat"} \cup {[msg |-> HeartBeat, from |-> IntruderOuter]}

\* The handshake and the heartbeats, with the history of the HeartBeats
\* handled: no datagram is lost or altered, and only a send of a HeartBeat
\* fails.
BeatNext ==
    \/ \E c \in Clients : ClientHello(c, TRUE) /\ Io(TRUE)
    \/ \E d \in wire : UdpHello(d.msg, d.from, TRUE) /\ Io(TRUE)
    \/ UdpHelloReply(TRUE) /\ Io(TRUE)
    \/ \E c \in Clients : \E f \in sent :
           f.to = OuterAddr(c) /\ ClientHandshake(c, f.msg) /\ Io(TRUE)
    \/ \E c \in Clients, ok \in BOOLEAN : ClientHeartBeat(c, ok) /\ Io(ok)
    \/ \E d \in BeatInbox, ok \in BOOLEAN :
           /\ UdpHeartBeat(d.msg, d.from, ok)
           /\ Fault(ok)
           /\ Handled(d, TRUE)
           /\ UNCHANGED got

Spec == Init /\ [][Next]_vars
PeerSpec == Init /\ [][PeerNext]_vars
HelloSpec == Init /\ [][HelloNext]_vars
BeatSpec == Init /\ [][BeatNext]_vars


(***************************************************************************)
(* Properties.                                                             *)
(***************************************************************************)
PacketFrames(frames) == {f \in frames : f.msg.type = "Packet"}

\* seal's layout of a content: the AEAD block, then the nonce.
BlockOf(f) == f.msg.sealed.content[1]
NonceOf(f) ==
    LET content == f.msg.sealed.content
    IN  SubSeq(content, Len(content) - NonceLen + 1, Len(content))

\* The frames among `frames` that were sealed with the sealing key of `key`.
SealedUnder(key, frames) == {f \in PacketFrames(frames) : BlockOf(f).key = key.sealing}

\* The nonces a NonceSeq has handed out so far.
Emitted(ns) == {NonceBytes(v, ns.id) : v \in 0..(ns.next - 1)}

\* One step of one SessionKey and of the frames its holder has sent: the
\* counter steps by one at most, and a frame sealed in this step carries the
\* counter's value before the step, which the step then leaves behind.
KeyStep(key, key2, frames, frames2) ==
    key2.sealing = key.sealing =>
        /\ key2.nonce_seq.id = key.nonce_seq.id
        /\ key2.nonce_seq.next \in {key.nonce_seq.next, key.nonce_seq.next + 1}
        /\ \A f \in SealedUnder(key, frames2) \ frames :
               /\ NonceOf(f) = NonceBytes(key.nonce_seq.next, key.nonce_seq.id)
               /\ key2.nonce_seq.next = key.nonce_seq.next + 1

\* A SessionKey that replaces another starts at 0.
KeyStart(key, key2) ==
    (key2.sealing # key.sealing /\ key2 # NoKey) => key2.nonce_seq.next = 0

C1_Distinct ==
    \A id \in {ClientId, ServerId} : \A v, w \in 0..(SeqLimit - 1) :
        v # w => NonceBytes(v, id) # NonceBytes(w, id)

C1_Recorded ==
    /\ \A a \in InnerAddrs : \A f \in SealedUnder(peers[a].session_key, sent) :
           NonceOf(f) \in Emitted(peers[a].session_key.nonce_seq)
    /\ \A c \in Clients : \A f \in SealedUnder(cl[c].session_key, wire) :
           NonceOf(f) \in Emitted(cl[c].session_key.nonce_seq)

C1_Step ==
    /\ \A a \in InnerAddrs :
           /\ KeyStep(peers[a].session_key, peers'[a].session_key, sent, sent')
           /\ KeyStart(peers[a].session_key, peers'[a].session_key)
    /\ \A c \in Clients :
           /\ KeyStep(cl[c].session_key, cl'[c].session_key, wire, wire')
           /\ KeyStart(cl[c].session_key, cl'[c].session_key)

\* C1: within one SessionKey no nonce is emitted twice.  Counter values map
\* to distinct nonces, every frame sealed with a key carries a value below
\* the key's counter, and each seal emits the counter's value and steps the
\* counter by exactly 1, starting from 0.
C1_NonceNeverReused == [](C1_Distinct /\ C1_Recorded) /\ [][C1_Step]_vars

\* C1, witness: a peer's session key has sealed twice and both frames were sent.
C1_Witness ==
    \E a \in ConfigPeers :
        /\ peers[a].session_key.nonce_seq.next >= 2
        /\ Cardinality(SealedUnder(peers[a].session_key, sent)) >= 2

\* The position of a nonce in its key's sequence.
SeqOf(nonce_bytes) ==
    CHOOSE v \in 0..(SeqLimit - 1) : \E id \in {ClientId, ServerId} :
        NonceBytes(v, id) = nonce_bytes

UdpHoldsLock == udp.pc \in {"hello_reply", "packet_tun", "packet_forward"}
TunHoldsLock == tun.pc = "send"

C2_Mutex ==
    /\ ~(UdpHoldsLock /\ TunHoldsLock)
    /\ UdpHoldsLock => lock = "udp"
    /\ TunHoldsLock => lock = "tun"

\* A seal on a peer's session key that takes effect in this step is done by
\* the worker holding the mutex, and its nonce comes after every nonce that
\* either worker recorded for that key before.
C2_Step ==
    \A a \in InnerAddrs : \A f \in SealedUnder(peers[a].session_key, sent') \ sent :
        /\ \/ udp.pc = "packet_forward" /\ lock = "udp" /\ ~TunHoldsLock
           \/ tun.pc = "send" /\ lock = "tun" /\ ~UdpHoldsLock
        /\ \A g \in SealedUnder(peers[a].session_key, sent) :
               SeqOf(NonceOf(g)) < SeqOf(NonceOf(f))
        /\ SeqOf(NonceOf(f)) < peers'[a].session_key.nonce_seq.next

\* C2: the two server workers sealing for the same peer do so one at a time
\* (under the peer-table mutex), so the nonces recorded across both are
\* strictly increasing in the order the seals take effect, with no duplicate.
C2_NoncesAcrossThreads == []C2_Mutex /\ [][C2_Step]_vars

\* C2, witness: the UDP worker (a forward) and the TUN worker (a packet of
\* the server's own) have both sealed with the same peer's session key.
C2_Witness ==
    \E a \in ConfigPeers : \E f, g \in SealedUnder(peers[a].session_key, sent) :
        /\ f.msg.sealed.source = ServerAddress
        /\ g.msg.sealed.source # ServerAddress

\* What the server requires of a Hello, read off the datagram: the declared
\* inner address is a configured peer and the seed is signed by that peer.
Acceptable(msg) ==
    /\ msg.type = "Hello"
    /\ msg.addr \in ConfigPeers
    /\ msg.seed.signature = [signer |-> ClientIdentity(msg.addr), over |-> msg.seed.data]

\* The UDP worker handles a Hello in this step: last' is that Hello.
HelloHandled == last'.serial # last.serial

C3_Step ==
    (HelloHandled /\ ~Acceptable(last'.msg)) =>
        /\ peers' = peers
        /\ sent' = sent
        /\ lock' = lock
        /\ udp'.pc # "hello_reply"

\* C3: a Hello the server rejects (its address is no configured peer, or its
\* seed is not signed by that peer's key) leaves the peer table as it was,
\* and neither a HelloReply nor any other frame is sent for it.
C3_RejectedHelloChangesNothing == [][C3_Step]_vars

\* C3, witness: with peer A's session in the table, the last Hello handled
\* named A and was signed by another key; A's entry is still there.
C3_Witness ==
    /\ last.msg.type = "Hello"
    /\ last.msg.addr = PeerA
    /\ last.msg.seed.signature.signer = IntruderIdentity
    /\ peers[PeerA].present
    /\ udp.pc = "recv"

\* The seed pairs the server can have generated.
ServerSeeds == FirstServerSeed..(FirstServerSeed + MaxSeeds - 1)

\* The HelloReply for the server's seed pair n.
ReplyFor(n) ==
    HelloReply([data |-> Serialize(PubSeed(n)),
                signature |-> [signer |-> ServerIdentity, over |-> Serialize(PubSeed(n))]])

\* The entry an accepted Hello from src installs with the seed pair n.
EntryFor(msg, src, n) ==
    Peer(src, server_derive(PrivSeed(n), Deserialize(msg.seed.data)))

\* The seed pair n has not been used: no entry's key and no reply holds it.
Unused(n) ==
    /\ \A a \in InnerAddrs : <<n, 1>> \notin peers[a].session_key.opening.kdf
    /\ \A f \in sent : f.msg # ReplyFor(n)

\* The step that accepts a Hello: the entry (src, fresh key) is installed,
\* over whatever was there, and nothing is sent yet.
C4_Install ==
    (HelloHandled /\ Acceptable(last'.msg) /\ last'.readable) =>
        \E n \in ServerSeeds :
            /\ Unused(n)
            /\ peers' = [peers EXCEPT ![last'.msg.addr] = EntryFor(last'.msg, last'.from, n)]
            /\ sent' = sent
            /\ udp'.pc = "hello_reply"
            /\ udp'.msg = last'.msg
            /\ udp'.src_addr = last'.from
            /\ udp'.pub_seed = PubSeed(n)

\* Between the two steps the entry is in the table.
C4_Held ==
    udp.pc = "hello_reply" =>
        \E n \in ServerSeeds :
            /\ udp.pub_seed = PubSeed(n)
            /\ peers[udp.msg.addr] = EntryFor(udp.msg, udp.src_addr, n)

\* The step that replies: the signed seed goes to src, unless send_to fails
\* (a fault), and the entry stays either way.
C4_Reply ==
    (udp.pc = "hello_reply" /\ udp'.pc # "hello_reply") =>
        /\ peers' = peers
        /\ \E n \in ServerSeeds :
               /\ udp.pub_seed = PubSeed(n)
               /\ sent' = IF n_faults' = n_faults
                          THEN sent \cup {[msg |-> ReplyFor(n), to |-> udp.src_addr]}
                          ELSE sent

\* C4: an accepted Hello { addr, seed } from src makes the peer table map
\* addr to (src, a session key freshly derived for this Hello), replacing
\* any entry addr had; the HelloReply with the server's signed public seed
\* is sent to src; the entry is installed before the reply is sent and
\* stays installed when sending the reply fails.
C4_AcceptedHelloInstalls == []C4_Held /\ [][C4_Install /\ C4_Reply]_vars

\* C4, witness: A's entry was installed, then replaced by a second accepted
\* Hello from another outer address whose reply failed to send; the second
\* entry is in the table.
C4_Witness ==
    /\ udp.pc = "recv"
    /\ nseeds = 2
    /\ ~peers[PeerB].present
    /\ peers[PeerA] = EntryFor(last.msg, IntruderOuter, FirstServerSeed + 1)
    /\ [msg |-> ReplyFor(FirstServerSeed), to |-> OuterAddr(PeerA)] \in sent
    /\ \A f \in sent : f.msg # ReplyFor(FirstServerSeed + 1)

\* A sealed content as the holder of `key` unseals it, with the addresses
\* the SealedPacket carries.
Unsealed(key, sealed_packet) ==
    unseal(key, addresses_as_bytes(sealed_packet), sealed_packet.content)

\* unseal returned the packet.
Yields(res, packet) == res.outcome = "ok" /\ res.val = packet

\* The packet sealed afresh with the sealing half of `key` (its counter at
\* the start), as a SealedPacket.
Probe(key, packet) ==
    LET sealed_packet == SealedPacket(packet.source, packet.destination, <<>>)
        res == seal([key EXCEPT !.nonce_seq.next = 0],
                    addresses_as_bytes(sealed_packet), packet)
    IN  [sealed_packet EXCEPT !.content = res.bytes]

ProbePackets == {Ipv4Packet(s, d, "probe") : s, d \in Hosts}

\* The step that replaces a session: the entry of a is in the table and the
\* step gives it another session key.
Replaces(a) ==
    /\ peers[a].present
    /\ peers'[a].session_key.opening # peers[a].session_key.opening
       \/ peers'[a].session_key.sealing # peers[a].session_key.sealing
       \/ peers'[a].sock_addr # peers[a].sock_addr

C5_Step ==
    \A a \in InnerAddrs : Replaces(a) =>
        LET old == peers[a]
            new == peers'[a]
            \* the key the client derives from the reply to this Hello
            newc == client_derive(PrivSeed(ClientSeed(a)), udp'.pub_seed)
        IN  \* one step of the UDP worker with the mutex its own, the other
            \* loop outside its critical section, both fields new
            /\ udp.pc = "recv" /\ udp'.pc = "hello_reply"
            /\ lock = "none" /\ lock' = "udp"
            /\ ~TunHoldsLock
            /\ new = Peer(udp'.src_addr, new.session_key)
            /\ new.session_key.opening # old.session_key.opening
            /\ new.session_key.sealing # old.session_key.sealing
            \* the old session's packets in flight, and any it could seal,
            \* are not accepted under the new session
            /\ \A f \in PacketFrames(wire) :
                   Unsealed(old.session_key, f.msg.sealed).outcome = "ok"
                       => Unsealed(new.session_key, f.msg.sealed).outcome = "err"
            /\ \A c \in Clients : \A p \in ProbePackets :
                   Unsealed(old.session_key, Probe(cl[c].session_key, p)).outcome = "ok"
                       => Unsealed(new.session_key, Probe(cl[c].session_key, p)).outcome = "err"
            \* the new session's packets are not accepted under the old one,
            \* server side and client side
            /\ \A p \in ProbePackets :
                   /\ Unsealed(new.session_key, Probe(newc, p)).outcome = "ok"
                   /\ Unsealed(old.session_key, Probe(newc, p)).outcome = "err"
                   /\ \A c \in Clients :
                          Unsealed(cl[c].session_key, Probe(old.session_key, p)).outcome = "ok"
                              => Unsealed(cl[c].session_key, Probe(new.session_key, p)).outcome = "err"

\* C5: a re-Hello replaces the peer's entry in one step taken under the
\* mutex while the other loop is outside its critical section, outer address
\* and session key together; no Packet sealed under the old session unseals
\* under the new one, and none sealed under the new session unseals under
\* the old one.
C5_ReHelloReplacesSession == []C2_Mutex /\ [][C5_Step]_vars

\* C5, witness: A is established and a Packet A sealed is in flight when a
\* second Hello has replaced A's entry; the new entry refuses that Packet.
C5_Witness ==
    /\ udp.pc = "hello_reply"
    /\ udp.msg.addr = PeerA
    /\ nseeds = 2
    /\ ~peers[PeerB].present
    /\ cl[PeerA].state = "Established"
    /\ \E f \in PacketFrames(wire) :
           /\ BlockOf(f).key = cl[PeerA].session_key.sealing
           /\ Unsealed(peers[PeerA].session_key, f.msg.sealed).outcome = "err"

\* The seed pairs that went into a session key.
SeedsIn(key) == {x[1] : x \in key.opening.kdf \cup key.sealing.kdf}

\* The client c and the entry stored for its inner address come from one
\* seed exchange: c's Hello was accepted and c took the reply to it.
SameExchange(c) ==
    /\ cl[c].state = "Established"
    /\ peers[c].present
    /\ \E n \in ServerSeeds :
           /\ SeedsIn(cl[c].session_key) = {ClientSeed(c), n}
           /\ SeedsIn(peers[c].session_key) = {ClientSeed(c), n}

\* A client waiting for the reply to its Hello becomes Established by the
\* step that receives that reply.
C6_Establishes ==
    \A c \in Clients : \A n \in ServerSeeds :
        (/\ cl[c].state = "HelloSent"
         /\ [msg |-> ReplyFor(n), to |-> OuterAddr(c)] \in sent)
            => ENABLED (ClientHandshake(c, ReplyFor(n)) /\ Io(TRUE)
                        /\ cl'[c].state = "Established"
                        /\ SeedsIn(cl'[c].session_key) = {ClientSeed(c), n})

C6_RoundTrip ==
    \A c \in Clients : SameExchange(c) =>
        \A p \in ProbePackets :
            /\ Yields(Unsealed(peers[c].session_key, Probe(cl[c].session_key, p)), p)
            /\ Yields(Unsealed(cl[c].session_key, Probe(peers[c].session_key, p)), p)

\* What c sealed and the server holds unsealed, and the reverse.
C6_InFlight ==
    \A c \in Clients : SameExchange(c) =>
        /\ \A f \in SealedUnder(cl[c].session_key, wire) :
               Unsealed(peers[c].session_key, f.msg.sealed).outcome = "ok"
        /\ \A f \in SealedUnder(peers[c].session_key, sent) :
               Unsealed(cl[c].session_key, f.msg.sealed).outcome = "ok"

\* C6: when the server's reply to the client's accepted Hello reaches the
\* client, the client's step on it makes it Established, and the client's
\* key and the entry stored for its inner address are paired: what either
\* seals the other unseals, to the same bytes.
C6_HandshakePairsKeys == C6_Establishes /\ C6_RoundTrip /\ C6_InFlight

\* C6, witness: A is established on the exchange its entry comes from, the
\* server has unsealed a Packet of A's and A has unsealed one of the server's.
C6_Witness ==
    /\ SameExchange(PeerA)
    /\ Ipv4Packet(PeerA, ServerAddress, "ping") \in iface
    /\ Ipv4Packet(ServerAddress, PeerA, "pong") \in ciface[PeerA]

\* Packets a TUN device hands to its program: what a host transmits.
Transmitted(a) == IF a = ServerAddress THEN ServerTunPackets ELSE ClientTunPackets(a)

\* The forward: the UDP worker holds a Packet of A's, unsealed, for peer B,
\* and its send_to succeeds.  Exactly one frame is sent; it goes to B's
\* recorded outer address, is sealed with B's session key, carries the bytes
\* A sealed, and B's client, when on the same exchange, unseals those bytes.
C7_Forward ==
    (/\ udp.pc = "packet_forward"
     /\ udp'.pc = "recv"
     /\ n_faults' = n_faults) =>
        LET B == udp.packet.destination
            entry == peers[B]
        IN  /\ B # ServerAddress
            /\ entry.present
            /\ udp.packet = Deserialize(BlockOf(udp).plain)
            /\ udp.packet \in Transmitted(udp.packet.source)
            /\ \E f \in sent' :
                   /\ f \notin sent
                   /\ sent' = sent \cup {f}
                   /\ f.to = entry.sock_addr
                   /\ f.msg.type = "Packet"
                   /\ BlockOf(f).key = entry.session_key.sealing
                   /\ Deserialize(BlockOf(f).plain) = udp.packet
                   /\ SameExchange(B) => Yields(Unsealed(cl[B].session_key, f.msg.sealed),
                                                udp.packet)

\* What a client writes to its TUN is what the packet's source transmitted.
C7_TunBytes ==
    \A c \in Clients : \A packet \in ciface[c] :
        /\ packet.source \in Hosts
        /\ packet \in Transmitted(packet.source)

\* A client writes to its TUN the bytes it unsealed from a frame.
C7_Deliver ==
    \A c \in Clients : \A packet \in ciface'[c] \ ciface[c] :
        \E f \in PacketFrames(sent) :
            Yields(Unsealed(cl[c].session_key, f.msg.sealed), packet)

\* C7: for a valid Packet from established peer A whose inner destination
\* is established peer B, the server sends exactly one Packet, sealed with
\* B's current session key, to B's recorded outer address, and the bytes B
\* unseals and writes to its TUN are the bytes A read from its TUN.
C7_ForwardPreservesBytes == []C7_TunBytes /\ [][C7_Forward /\ C7_Deliver]_vars

\* C7, witness: B's TUN holds the packet A's TUN transmitted to B.
C7_Witness ==
    /\ Ipv4Packet(PeerA, PeerB, "ping") \in ciface[PeerB]
    /\ SameExchange(PeerA)
    /\ SameExchange(PeerB)

\* The session keys that exist: the peer table's and the clients'.
SessionKeys ==
    {peers[a].session_key : a \in InnerAddrs} \cup {cl[c].session_key : c \in Clients}

\* The Packets sealed so far, in either direction.
Sealed == {f.msg.sealed : f \in PacketFrames(wire)} \cup {f.msg.sealed : f \in PacketFrames(sent)}

\* C8: a sealed content does not unseal with additional data other than
\* what it was sealed with: with the source or the destination address of
\* the SealedPacket changed, unseal under any session key, the paired one
\* included, returns an error and yields no plaintext.
C8_ChangedAddressFailsUnseal ==
    \A sealed_packet \in Sealed : \A key \in SessionKeys : \A x \in InnerAddrs :
        /\ x # sealed_packet.source =>
               Unsealed(key, [sealed_packet EXCEPT !.source = x]).outcome = "err"
        /\ x # sealed_packet.destination =>
               Unsealed(key, [sealed_packet EXCEPT !.destination = x]).outcome = "err"

\* C8, witness: a Packet in flight that the paired session key unseals as it
\* is, both from a client and from the server.
C8_Witness ==
    /\ \E f \in PacketFrames(wire) :
           Unsealed(peers[f.msg.sealed.source].session_key, f.msg.sealed).outcome = "ok"
    /\ \E f \in PacketFrames(sent) : \E c \in Clients :
           Unsealed(cl[c].session_key, f.msg.sealed).outcome = "ok"

\* C9: no per-packet error on the server ends a worker.  failure to load a
\* peer's public key and a failed TUN write are on the claim's list; the UDP
\* worker would never be found returned from its loop with an I/O error.
C9_UdpWorkerKeepsRunning == ~(udp.pc = "exited" /\ udp.err = "io")

\* C10: a seal attempted with the sequence counter exhausted returns an
\* error to its caller: no session key at the limit panics in seal, and no
\* worker is found unwound by it.
C10_ExhaustedSealReturnsError ==
    /\ \A key \in SessionKeys : \A p \in ProbePackets :
           key.nonce_seq.next >= SeqLimit =>
               seal(key, addresses_as_bytes(SealedPacket(p.source, p.destination, <<>>)),
                    p).outcome # "panic"
    /\ udp.err # "nonce wear out"
    /\ tun.err # "nonce wear out"

\* A client's handshake receives a message in this step: got' is that message.
HandshakeReceived == got'.serial # got.serial

\* C11: a client that has sent its Hello stays in HelloSent on every message
\* it receives that is not a HelloReply; only a HelloReply moves it out.
C11_NonReplyIgnored ==
    [][(HandshakeReceived /\ got'.msg.type # "HelloReply")
           => cl'[got'.c] = cl[got'.c]]_vars

\* A HelloReply whose seed is signed by the server's key.
ServerSigned(msg) ==
    /\ msg.type = "HelloReply"
    /\ msg.seed.signature = [signer |-> ServerIdentity, over |-> msg.seed.data]

C12_Step ==
    (HandshakeReceived /\ got'.msg.type = "HelloReply" /\ ~ServerSigned(got'.msg)) =>
        /\ cl[got'.c].state = "HelloSent"
        /\ cl'[got'.c].state = "Dead"
        /\ cl'[got'.c].main = "ended"
        /\ cl'[got'.c].session_key = NoKey
        /\ wire' = wire

\* A session key is held only by an Established client, and it was derived
\* from a seed pair of the server's.
C12_Keys ==
    \A c \in Clients :
        IF cl[c].state = "Established"
        THEN \E n \in ServerSeeds : SeedsIn(cl[c].session_key) = {ClientSeed(c), n}
        ELSE cl[c].session_key = NoKey

\* C12: a HelloReply whose seed does not verify under the server's public
\* key never makes the client Established: the client derives no session
\* key from it and the reply ends the client.
C12_BadReplyEndsClient == []C12_Keys /\ [][C12_Step]_vars

\* C12, witness: the last message a handshake received was a HelloReply not
\* signed by the server, and that client has ended.
C12_Witness ==
    /\ got.msg.type = "HelloReply"
    /\ ~ServerSigned(got.msg)
    /\ cl[got.c].state = "Dead"

\* The UDP worker handles a Packet in this step: last' is that datagram.
PacketHandled == last'.serial # last.serial /\ last'.msg.type = "Packet"

\* Why the server drops a Packet, read off the datagram and the peer table.
UnknownSource(sealed_packet) == ~peers[sealed_packet.source].present
UnsealFails(sealed_packet) ==
    /\ peers[sealed_packet.source].present
    /\ Len(sealed_packet.content) >= NonceLen
    /\ Unsealed(peers[sealed_packet.source].session_key, sealed_packet).outcome = "err"
InnerOf(sealed_packet) == Unsealed(peers[sealed_packet.source].session_key, sealed_packet).val
Opens(sealed_packet) ==
    /\ peers[sealed_packet.source].present
    /\ Unsealed(peers[sealed_packet.source].session_key, sealed_packet).outcome = "ok"
MalformedInner(sealed_packet) == Opens(sealed_packet) /\ ~InnerOf(sealed_packet).ipv4
UnknownDestination(sealed_packet) ==
    /\ Opens(sealed_packet)
    /\ InnerOf(sealed_packet).ipv4
    /\ InnerOf(sealed_packet).destination # ServerAddress
    /\ ~peers[InnerOf(sealed_packet).destination].present
Dropped(sealed_packet) ==
    \/ UnknownSource(sealed_packet)
    \/ UnsealFails(sealed_packet)
    \/ MalformedInner(sealed_packet)
    \/ UnknownDestination(sealed_packet)

C13_Step ==
    (PacketHandled /\ Dropped(last'.msg.sealed)) =>
        /\ sent' = sent
        /\ iface' = iface
        /\ peers' = peers
        /\ udp' = udp
        /\ lock' = lock
        /\ poisoned' = poisoned

\* C13: a Packet the server drops (source not in the peer table, unseal
\* failure, malformed inner IPv4 header, inner destination neither the
\* server nor a peer in the table) sends no frame, writes nothing to the
\* TUN and changes no peer entry; the worker is back at its receive.
C13_DroppedPacketChangesNothing == [][C13_Step]_vars

\* C13, witness: the last Packet handled came from peer A, unsealed under
\* A's entry and named 10.20.30.99, which has no entry; nothing was sent
\* but the handshake's replies and nothing written to the TUN.
C13_Witness ==
    /\ last.msg.type = "Packet"
    /\ last.msg.sealed.source = PeerA
    /\ UnknownDestination(last.msg.sealed)
    /\ InnerOf(last.msg.sealed).destination = Stranger
    /\ peers[PeerB].present
    /\ udp.pc = "recv"
    /\ PacketFrames(sent) = {}
    /\ iface = {}

\* C14: no server worker does a TUN read, a TUN write, a socket receive or
\* a file read while it holds the peer-table mutex: the workers are at
\* their receives without it, and the UDP worker is not found at its TUN
\* write with it.
C14_NoBlockingIoUnderLock ==
    /\ udp.pc = "recv" => lock # "udp"
    /\ tun.pc = "recv" => lock # "tun"
    /\ udp.pc = "packet_tun" => lock # "udp"

\* C17: a Packet the server forwards carries the source and destination
\* addresses of the SealedPacket the server received.
C17_ForwardKeepsAddresses ==
    [][udp.pc = "packet_forward" =>
           \A f \in sent' \ sent :
               /\ f.msg.sealed.source = udp.msg.sealed.source
               /\ f.msg.sealed.destination = udp.msg.sealed.destination]_vars

\* C18: a Packet from a known source whose content is too short to hold a
\* nonce is dropped like any other that fails to unseal: no worker is found
\* unwound by the split of the content, and no mutex is poisoned by it.
C18_ShortContentIsDropped ==
    /\ udp.err # "split_at_mut"
    /\ \A c \in Clients : cl[c].rx # "split_at_mut"

\* Additional data given to seal and unseal: nothing, one byte, and the
\* addresses of a SealedPacket.
AadPrefixes ==
    {<<>>, <<Byte(0)>>} \cup {addresses_as_bytes(SealedPacket(s, d, <<>>)) : s, d \in Hosts}

\* Data given to seal: IPv4 packets and bytes that are none.
Plaintexts == ProbePackets \cup {NotIpv4}

\* `from` seals data under aad with its next nonce and `to` unseals the
\* result under the same aad to the data.
RoundTrip(from, to, aad, data) ==
    LET res == seal(from, aad, data)
    IN  /\ res.outcome = "ok"
        /\ Yields(unseal(to, aad, res.bytes), data)

\* C15: the client-role key of a client and the server-role key stored for
\* it, derived from the same seed exchange, open each other's frames: for
\* every plaintext and every AAD prefix, what one seals with its next nonce
\* the other unseals, with the same prefix, to exactly that plaintext.
C15_RolesOpenEachOther ==
    \A c \in Clients : SameExchange(c) =>
        LET ck == cl[c].session_key
            sk == peers[c].session_key
        IN  \A aad \in AadPrefixes : \A data \in Plaintexts :
                /\ ck.nonce_seq.next < SeqLimit => RoundTrip(ck, sk, aad, data)
                /\ sk.nonce_seq.next < SeqLimit => RoundTrip(sk, ck, aad, data)

\* C15, witness: B and its entry are on one exchange, made with the second
\* seed pair of the server, and both keys have sealed before and can seal
\* again.
C15_Witness ==
    /\ SameExchange(PeerB)
    /\ SeedsIn(cl[PeerB].session_key) = {ClientSeed(PeerB), FirstServerSeed + 1}
    /\ cl[PeerB].session_key.nonce_seq.next \in 1..(SeqLimit - 1)
    /\ peers[PeerB].session_key.nonce_seq.next \in 1..(SeqLimit - 1)

\* The nonces a NonceSeq of role `id` can emit: one per counter value below
\* the limit.
NoncesOf(id) ==
    {advance([NonceSeq_new(id) EXCEPT !.next = v]).nonce : v \in 0..(SeqLimit - 1)}

\* The role tag of the key that sealed the frames: Packets on the wire are
\* sealed by clients, Packets the server sent by the server.
C16_Tagged ==
    /\ \A f \in PacketFrames(wire) : NonceOf(f)[NonceLen] = Byte(ClientId)
    /\ \A f \in PacketFrames(sent) : NonceOf(f)[NonceLen] = Byte(ServerId)
    /\ \A f \in PacketFrames(wire) : \A g \in PacketFrames(sent) : NonceOf(f) # NonceOf(g)

\* The tag is fixed at construction and kept.
C16_Roles ==
    \A c \in Clients :
        /\ cl[c].state = "Established" => cl[c].session_key.nonce_seq.id = ClientId
        /\ peers[c].present => peers[c].session_key.nonce_seq.id = ServerId

C16_Emits ==
    /\ \A nonce \in NoncesOf(ClientId) : nonce[NonceLen] = Byte(ClientId)
    /\ \A nonce \in NoncesOf(ServerId) : nonce[NonceLen] = Byte(ServerId)
    /\ NoncesOf(ClientId) \cap NoncesOf(ServerId) = {}
    /\ Cardinality(NoncesOf(ClientId)) = SeqLimit
    /\ Cardinality(NoncesOf(ServerId)) = SeqLimit

\* C16: the last byte of every nonce a SessionKey emits is the role tag
\* fixed when the key was derived, 1 by client_derive and 2 by
\* server_derive, so a nonce sealed by a client-role key never equals one
\* sealed by a server-role key, whatever the two counter values.
C16_RoleTagSeparatesNonces == C16_Tagged /\ C16_Roles /\ C16_Emits

\* C16, witness: a client and the server have each sealed a Packet at the
\* same counter value.
C16_Witness ==
    \E f \in PacketFrames(wire) : \E g \in PacketFrames(sent) :
        /\ \A i \in 1..(NonceLen - 1) : NonceOf(f)[i] = NonceOf(g)[i]
        /\ NonceOf(f)[NonceLen] = Byte(ClientId)
        /\ NonceOf(g)[NonceLen] = Byte(ServerId)

\* advance at every counter value up to and past the limit: it succeeds
\* exactly below the limit, stepping the counter by one; at the limit it
\* emits nothing, leaves the NonceSeq as it was, and fails again.
C19_Advance ==
    \A id \in {ClientId, ServerId} : \A v \in 0..(SeqLimit + 1) :
        LET ns == [NonceSeq_new(id) EXCEPT !.next = v]
            res == advance(ns)
        IN  /\ res.ok <=> v < SeqLimit
            /\ res.ok => res.ns.next = v + 1 /\ res.ns.next <= SeqLimit
            /\ ~res.ok => /\ res.nonce = <<>>
                           /\ res.ns = ns
                           /\ ~advance(res.ns).ok

\* No counter held by the program is past the limit.
C19_Bounded == \A key \in SessionKeys : key.nonce_seq.next <= SeqLimit

\* A SessionKey's counter never goes back, and once at the limit it stays
\* there and the key seals no further frame.
C19_KeyStep(key, key2, frames, frames2) ==
    key2.sealing = key.sealing =>
        /\ key2.nonce_seq.next >= key.nonce_seq.next
        /\ key.nonce_seq.next >= SeqLimit =>
               /\ key2.nonce_seq = key.nonce_seq
               /\ SealedUnder(key, frames2) \ frames = {}

C19_Step ==
    /\ \A a \in InnerAddrs :
           C19_KeyStep(peers[a].session_key, peers'[a].session_key, sent, sent')
    /\ \A c \in Clients :
           C19_KeyStep(cl[c].session_key, cl'[c].session_key, wire, wire')

\* C19: the sequence counter never wraps.  advance succeeds only while the
\* counter is below the limit; at the limit it emits no nonce and leaves
\* the counter unchanged, so every later advance on that key fails too.
C19_CounterNeverWraps == [](C19_Advance /\ C19_Bounded) /\ [][C19_Step]_vars

\* C19, witness: the server's key for a peer is at the limit and a seal
\* with it has been attempted.
C19_Witness ==
    /\ \E a \in ConfigPeers :
           peers[a].present /\ peers[a].session_key.nonce_seq.next = SeqLimit
    /\ "nonce wear out" \in {udp.err, tun.err}

\* What the peer table records of a peer: whether it has an entry, the
\* outer address and the two keys.  (The nonce counter, which every seal
\* steps, is the subject of C1 and C19.)
Recorded(peer) ==
    [present |-> peer.present, sock_addr |-> peer.sock_addr,
     opening |-> peer.session_key.opening, sealing |-> peer.session_key.sealing]

\* The UDP worker accepts a Hello for inner address a in this step: it goes
\* from its receive to the reply, holding that Hello and its source.
Accepts(a) ==
    /\ udp.pc = "recv"
    /\ udp'.pc = "hello_reply"
    /\ Acceptable(udp'.msg)
    /\ udp'.msg.addr = a

\* A step changes what is recorded of a only by accepting a Hello for a,
\* which records the Hello's source; and an entry stays.
C20_Step ==
    \A a \in InnerAddrs :
        /\ Recorded(peers'[a]) # Recorded(peers[a]) =>
               /\ Accepts(a)
               /\ peers'[a].present
               /\ peers'[a].sock_addr = udp'.src_addr
        /\ peers[a].present => peers'[a].present

\* The HeartBeat branch, from any source and whether its echo is sent or
\* not, can be taken whenever the worker receives and changes no entry.
C20_HeartBeat ==
    \A src_addr \in OuterAddrs : \A ok \in BOOLEAN :
        /\ (UdpAt("recv") /\ (ok \/ n_faults < MaxFaults))
               => ENABLED (UdpHeartBeat(HeartBeat, src_addr, ok) /\ Io(ok))
        /\ ~ENABLED (UdpHeartBeat(HeartBeat, src_addr, ok) /\ Io(ok) /\ peers' # peers)

\* C20: only an accepted Hello changes the set of peer-table entries or an
\* entry's outer address and keys.  HeartBeat, Packet, unexpected variants,
\* rejected Hellos and TUN-outbound packets add and remove no entry and
\* change no entry's outer address or keys, also when a Packet arrives from
\* another outer address than the recorded one; an entry once present
\* stays present.
C20_OnlyHelloChangesTable == []C20_HeartBeat /\ [][C20_Step]_vars

\* C20, witness: A's entry records the intruder's outer address (a replayed
\* Hello), and the UDP worker has accepted a Packet that A sent from its
\* own outer address.
C20_Witness ==
    /\ udp.pc \in {"packet_tun", "packet_forward"}
    /\ udp.msg.type = "Packet"
    /\ udp.msg.sealed.source = PeerA
    /\ [msg |-> udp.msg, from |-> OuterAddr(PeerA)] \in wire
    /\ peers[PeerA].present
    /\ peers[PeerA].sock_addr = IntruderOuter

\* What the server is and holds, apart from the TUN worker's own place and
\* the mutex it takes for the lookup.
ServerState == <<peers, poisoned, udp, sent, iface, nseeds>>

\* A packet for the server's own address, read from the TUN: the read can
\* be taken whenever the worker reads, and has no successor in which
\* anything of the server, the worker's place or the mutex has changed.
C21_Own ==
    \A p \in {q \in ServerTunPackets : q.ipv4 /\ q.destination = ServerAddress} :
        /\ (TunAt("recv") /\ n_tun < MaxTun) => ENABLED (TunRecv(p, TRUE) /\ Io(TRUE))
        /\ ~ENABLED (/\ TunRecv(p, TRUE) /\ Io(TRUE)
                     /\ <<ServerState, tun, lock>>' # <<ServerState, tun, lock>>)

\* The TUN worker goes on to the lookup only with an IPv4 packet for
\* another address than the server's, and the read changes nothing else.
C21_Read ==
    (tun.pc = "recv" /\ tun'.pc = "send") =>
        /\ tun'.packet \in ServerTunPackets
        /\ tun'.packet.ipv4
        /\ tun'.packet.destination # ServerAddress
        /\ ServerState' = ServerState

\* The lookup of the packet the TUN worker holds.  With an entry for its
\* destination whose key can seal, the entry's counter steps and, unless
\* send_to fails, exactly one frame is sent: a Packet to the entry's outer
\* address, with the inner header's addresses, sealed with the entry's key
\* under those addresses, holding the packet.  With no entry, nothing is
\* sent and nothing changes.
C21_Lookup ==
    (tun.pc = "send" /\ tun'.pc # "send") =>
        LET packet == tun.packet
            d == packet.destination
            peer == peers[d]
            sealed_packet == SealedPacket(packet.source, d, <<>>)
        IN  /\ ~peer.present => ServerState' = ServerState /\ tun' = TunIdle
            /\ (peer.present /\ peer.session_key.nonce_seq.next < SeqLimit) =>
                   /\ tun' = TunIdle
                   /\ \A a \in InnerAddrs \ {d} : peers'[a] = peers[a]
                   /\ Recorded(peers'[d]) = Recorded(peer)
                   /\ <<poisoned, udp, iface, nseeds>>' = <<poisoned, udp, iface, nseeds>>
                   /\ sent \subseteq sent'
                   /\ Cardinality(sent' \ sent) = IF n_faults' = n_faults THEN 1 ELSE 0
                   /\ \A f \in sent' \ sent :
                          /\ f.to = peer.sock_addr
                          /\ f.msg.type = "Packet"
                          /\ f.msg.sealed.source = packet.source
                          /\ f.msg.sealed.destination = d
                          /\ BlockOf(f).key = peer.session_key.sealing
                          /\ BlockOf(f).aad = addresses_as_bytes(sealed_packet) \o NonceOf(f)
                          /\ BlockOf(f).plain = Serialize(packet)
                          /\ NonceOf(f) = NonceBytes(peer.session_key.nonce_seq.next, ServerId)

\* C21: an IPv4 packet the server reads from its TUN for its own address
\* sends nothing and changes nothing; one for a destination with an entry
\* sends exactly one Packet, sealed with that entry's session key under
\* (inner source, destination), to that entry's recorded outer address; one
\* for any other destination sends nothing and changes nothing.
C21_TunOutbound == []C21_Own /\ [][C21_Read /\ C21_Lookup]_vars

\* C21, witness: the server has read a packet for A from its TUN and sent
\* it, sealed, to the outer address recorded for A.
C21_Witness ==
    /\ n_tun = 1
    /\ tun.pc = "recv"
    /\ peers[PeerA].present
    /\ \E f \in PacketFrames(sent) :
           /\ BlockOf(f).plain = Serialize(Ipv4Packet(ServerAddress, PeerA, "pong"))
           /\ f.to = peers[PeerA].sock_addr

\* The datagram is a Packet the server unseals, with the key stored for the
\* source it declares, to an IPv4 packet for the server's own address.
ForServer(d) ==
    /\ d.msg.type = "Packet"
    /\ Whole(d.msg)
    /\ peers[d.msg.sealed.source].present
    /\ LET res == Unsealed(peers[d.msg.sealed.source].session_key, d.msg.sealed)
       IN  /\ res.outcome = "ok"
           /\ Ipv4Header_from_slice(res.val)
           /\ res.val.destination = ServerAddress

\* Every such Packet the worker can receive takes the worker to the TUN
\* write, holding the unsealed packet, and nowhere else.
C22_Routed ==
    \A d \in {x \in ServerInbox : ForServer(x)} :
        LET packet == Unsealed(peers[d.msg.sealed.source].session_key, d.msg.sealed).val
        IN  /\ (UdpAt("recv") /\ lock = "none" /\ ~poisoned)
                   => ENABLED (UdpPacket(d.msg, d.from) /\ Io(TRUE))
            /\ ~ENABLED (/\ UdpPacket(d.msg, d.from) /\ Io(TRUE)
                         /\ ~(/\ udp'.pc = "packet_tun"
                              /\ udp'.packet = packet
                              /\ <<peers, sent, iface>>' = <<peers, sent, iface>>))

\* The worker is at the TUN write only with such a packet.
C22_Held ==
    udp.pc = "packet_tun" =>
        /\ udp.packet.ipv4
        /\ udp.packet.destination = ServerAddress
        /\ Yields(Unsealed(peers[udp.msg.sealed.source].session_key, udp.msg.sealed),
                  udp.packet)

\* The TUN write: one step, which writes the packet held (unless the write
\* itself fails), sends no frame and leaves the table alone.
C22_Write ==
    (udp.pc = "packet_tun" /\ udp' # udp) =>
        /\ udp'.pc # "packet_tun"
        /\ sent' = sent
        /\ peers' = peers
        /\ iface' = IF n_faults' = n_faults THEN iface \cup {udp.packet} ELSE iface

C23_FrameFailureKeepsWorkers ==
    \A c \in Clients : ClientUp(c) => cl[c].main = "running" /\ cl[c].rx # "io"

\* The UDP worker handles a HeartBeat in this step: last' is that HeartBeat
\* and the address it came from.
BeatHandled == last'.serial # last.serial /\ last'.msg.type = "HeartBeat"

\* The address is the recorded outer address of a peer in the table.
IsPeerAddress(src_addr) ==
    \E a \in InnerAddrs : peers[a].present /\ peers[a].sock_addr = src_addr

\* C24: for every HeartBeat the server receives from an outer address it
\* sends one HeartBeat back to that address (none when the send itself
\* fails), whether or not the address is an established peer's, and does
\* nothing else: the table, the mutex, both workers, the TUN and the
\* clients are as before.
C24_HeartBeatEchoed ==
    [][BeatHandled =>
           /\ sent' = IF n_faults' = n_faults
                       THEN sent \cup {[msg |-> HeartBeat, to |-> last'.from]}
                       ELSE sent
           /\ <<peers, lock, poisoned, udp, tun, iface, n_tun, nseeds>>'
                  = <<peers, lock, poisoned, udp, tun, iface, n_tun, nseeds>>
           /\ client_vars' = client_vars]_vars

\* C24, witness: the server has echoed a HeartBeat to A, whose outer
\* address is in the table, and one to an address that is no peer's, and
\* has just handled a HeartBeat.
C24_Witness ==
    /\ last.msg.type = "HeartBeat"
    /\ IsPeerAddress(OuterAddr(PeerA))
    /\ ~IsPeerAddress(IntruderOuter)
    /\ [msg |-> HeartBeat, to |-> OuterAddr(PeerA)] \in sent
    /\ [msg |-> HeartBeat, to |-> IntruderOuter] \in sent

\* C25: whenever a client is Established, the server seed in its session
\* key is one the server generated while handling that client's own Hello:
\* the table has an entry for the client's inner address, and the seed is
\* not the one in the entry of another address.
C25_SeedFromOwnHello ==
    \A c \in Clients : ClientUp(c) =>
        /\ peers[c].present
        /\ \A n \in ServerSeeds \cap SeedsIn(cl[c].session_key) :
               \A a \in InnerAddrs \ {c} : n \notin SeedsIn(peers[a].session_key)

\* The packets that holders of a session key have sealed and sent: the
\* clients' Packets on the wire.
ClientSealed == {Deserialize(BlockOf(f).plain) : f \in PacketFrames(wire)}

\* The UDP worker holds a packet to deliver or forward only when the table
\* has an entry for the source the received SealedPacket declares and that
\* entry's key unseals the received content, under the declared addresses,
\* to the packet held.
C26_Held ==
    udp.pc \in {"packet_tun", "packet_forward"} =>
        /\ udp.msg.type = "Packet"
        /\ peers[udp.msg.sealed.source].present
        /\ Yields(Unsealed(peers[udp.msg.sealed.source].session_key, udp.msg.sealed),
                  udp.packet)

\* Whatever reached the server's TUN, and whatever the server sealed for a
\* peer, was sealed by a client or read by the server from its own TUN.
C26_Origin ==
    /\ iface \subseteq ClientSealed
    /\ \A f \in PacketFrames(sent) :
           Deserialize(BlockOf(f).plain) \in ClientSealed \cup ServerTunPackets

\* The TUN is written, and a frame is sent by the UDP worker, only with the
\* packet the worker holds.
C26_Step ==
    /\ iface' # iface => udp.pc = "packet_tun" /\ iface' = iface \cup {udp.packet}
    /\ \A f \in PacketFrames(sent') \ sent :
           \/ udp.pc = "packet_forward" /\ udp'.pc # "packet_forward"
                  /\ BlockOf(f).plain = Serialize(udp.packet)
           \/ tun.pc = "send" /\ tun'.pc # "send"
                  /\ BlockOf(f).plain = Serialize(tun.packet)

\* C26: the server writes a payload to its TUN or forwards it to another
\* peer only after it unsealed that payload under the session key stored,
\* at that moment, for the inner source address the received SealedPacket
\* declares; no payload of a sender without a session is delivered or
\* forwarded.
C26_OnlyAuthenticatedPayloads == [](C26_Held /\ C26_Origin) /\ [][C26_Step]_vars

\* C26, witness: the worker holds a packet that A sealed and sent, unsealed
\* with the key stored for A, to forward to B.
C26_Witness ==
    /\ udp.pc = "packet_forward"
    /\ udp.msg.sealed.source = PeerA
    /\ udp.packet = Ipv4Packet(PeerA, PeerB, "ping")
    /\ [msg |-> udp.msg, from |-> OuterAddr(PeerA)] \in wire
    /\ peers[PeerA].present
    /\ peers[PeerB].present

\* The sealing keys the server has sealed a frame with, or holds.
UsedSealingKeys ==
    {BlockOf(f).key : f \in PacketFrames(sent)}
        \cup {peers[a].session_key.sealing : a \in {x \in InnerAddrs : peers[x].present}}

\* No two frames the server sealed share key and nonce, and what was
\* sealed with a key still in the table lies below that key's counter.
C27_Distinct ==
    /\ \A f, g \in PacketFrames(sent) :
           (BlockOf(f).key = BlockOf(g).key /\ NonceOf(f) = NonceOf(g)) => f = g
    /\ \A a \in InnerAddrs : \A f \in SealedUnder(peers[a].session_key, sent) :
           peers[a].present => NonceOf(f) \in Emitted(peers[a].session_key.nonce_seq)

\* Accepting a Hello installs a session whose sealing key the server has
\* neither sealed with nor held, made from a seed pair not used before,
\* with its counter at 0.
C27_Install ==
    \A a \in InnerAddrs : Accepts(a) =>
        /\ peers'[a].session_key.sealing \notin UsedSealingKeys
        /\ peers'[a].session_key.nonce_seq = NonceSeq_new(ServerId)
        /\ \E n \in ServerSeeds :
               /\ Unused(n)
               /\ n \in SeedsIn(peers'[a].session_key)
               /\ udp'.pub_seed = PubSeed(n)

\* C27: across all the sessions the server holds for one inner address no
\* (sealing key, nonce) pair is used twice: every accepted Hello, a replay
\* of an earlier one included, installs a session made from a fresh server
\* seed, so the counter starting again at 0 repeats no nonce under a key
\* used before.
C27_NoReuseAcrossSessions == []C27_Distinct /\ [][C27_Install]_vars

\* C27, witness: the server sealed a frame for A at counter 0, and a later
\* Hello for A has installed another session, whose counter is at 0.
C27_Witness ==
    /\ peers[PeerA].present
    /\ peers[PeerA].session_key.nonce_seq.next = 0
    /\ \E f \in PacketFrames(sent) :
           /\ f.msg.sealed.destination = PeerA
           /\ NonceOf(f) = NonceBytes(0, ServerId)
           /\ BlockOf(f).key # peers[PeerA].session_key.sealing
           /\ SeedsIn([opening |-> BlockOf(f).key, sealing |-> BlockOf(f).key])
                  \cap SeedsIn(peers[PeerA].session_key) = {ClientSeed(PeerA)}

====
